---------------------------- MODULE Spec2Model ----------------------------
(***************************************************************************)
(* A model of doctext (joostlubach/doctext): RawReader (comment merging,   *)
(* attribution of comment blocks to the entries of an object literal),     *)
(* DoctextParser (the line-oriented entity language) and DoctextReader     *)
(* (copy resolution and nested-property expansion).                        *)
(*                                                                         *)
(* Text is modelled character by character on TLA+ strings.  Dictionaries  *)
(* (plain JavaScript objects) are sequences of [key, value] pairs in       *)
(* insertion order.  Entry keys and entity names range over ordinary      *)
(* names, none of them a property of Object.prototype; a copy reference    *)
(* may name such a property (ObjectPrototypeKeys).                         *)
(* An optional value (T | null | undefined) is a sequence of length 0 or 1.*)
(* The comment marker is the default one, 'jsdoc' (config.ts:17).          *)
(***************************************************************************)
EXTENDS Integers, Sequences, FiniteSets, TLC

VARIABLES
  comments,         \* Acorn.Comment[] collected by the parser, in source order
  props,            \* the literal's Property nodes with a key path, in walk order
  program,          \* the Acorn.Program: its call expressions and their arguments
  callsite,         \* the Callsite: lineno and, if any, functionName
  whitelist,        \* config.whitelist
  blacklist,        \* config.blacklist
  objectNode,       \* findObjectExpression's result, if it has returned
  pc,               \* position of readSync: "read", "parse", "copy", "props", "done",
                    \* "failed"; "idle" when readSync is not run
  error,            \* the error thrown, "none" while there is none
  doctexts,         \* findDoctexts' result
  matchedArray,     \* matchDocumentablesWithDoctexts' first result
  raw,              \* RawReadResult
  parsed,           \* parseAndResolve: matched/unmatched right after parsing
  copied,           \* ... after resolveCopyDoctexts
  result,           \* ... after resolveProperties: the ReadResult
  pIn,              \* DoctextParser.parse on its own: the RawDoctext given
  pOut              \* ... and what extractEntities and parse made of it

vars == <<comments, props, program, callsite, whitelist, blacklist, objectNode, pc, error,
          doctexts, matchedArray, raw, parsed, copied, result, pIn, pOut>>

parserVars == <<pIn, pOut>>

inputs == <<comments, props, program, callsite, whitelist, blacklist>>

-----------------------------------------------------------------------------
(* Bounds of the model.                                                    *)

MaxLine == 4
MaxProps == 2

-----------------------------------------------------------------------------
(* Characters and strings.                                                 *)

Ch(s, i) == SubSeq(s, i, i)

\* \s of the regular expressions
WhiteSpace == {" ", "\t", "\n"}

IsSpace(c) == c \in WhiteSpace

\* \w of the regular expressions
WordChars ==
  {"a", "b", "c", "d", "e", "f", "g", "h", "i", "j", "k", "l", "m", "n", "o",
   "p", "q", "r", "s", "t", "u", "v", "w", "x", "y", "z", "A", "B", "C", "D",
   "E", "F", "G", "H", "I", "J", "K", "L", "M", "N", "O", "P", "Q", "R", "S",
   "T", "U", "V", "W", "X", "Y", "Z", "0", "1", "2", "3", "4", "5", "6", "7",
   "8", "9", "_"}

IsWord(c) == c \in WordChars

\* length of the match of /^\s*/
RECURSIVE LeadingSpaces(_)
LeadingSpaces(s) ==
  IF Len(s) > 0 /\ IsSpace(Head(s)) THEN 1 + LeadingSpaces(Tail(s)) ELSE 0

RECURSIVE TrailingSpaces(_)
TrailingSpaces(s) ==
  IF Len(s) > 0 /\ IsSpace(Ch(s, Len(s)))
  THEN 1 + TrailingSpaces(SubSeq(s, 1, Len(s) - 1))
  ELSE 0

TrimEnd(s) == SubSeq(s, 1, Len(s) - TrailingSpaces(s))

TrimStart(s) == SubSeq(s, LeadingSpaces(s) + 1, Len(s))

Trim(s) == TrimStart(TrimEnd(s))

\* String.prototype.indexOf for a single character, 0 when absent
RECURSIVE IndexOfChar(_, _, _)
IndexOfChar(s, c, from) ==
  IF from > Len(s) THEN 0
  ELSE IF Ch(s, from) = c THEN from
  ELSE IndexOfChar(s, c, from + 1)

\* String.prototype.split('\n')
RECURSIVE SplitLines(_)
SplitLines(s) ==
  LET i == IndexOfChar(s, "\n", 1) IN
  IF i = 0 THEN <<s>>
  ELSE <<SubSeq(s, 1, i - 1)>> \o SplitLines(SubSeq(s, i + 1, Len(s)))

\* Array.prototype.join
RECURSIVE Join(_, _)
Join(ss, sep) ==
  IF Len(ss) = 0 THEN ""
  ELSE IF Len(ss) = 1 THEN ss[1]
  ELSE ss[1] \o sep \o Join(Tail(ss), sep)

MapSeq(f(_), ss) == [i \in 1..Len(ss) |-> f(ss[i])]

Reverse(ss) == [i \in 1..Len(ss) |-> ss[Len(ss) + 1 - i]]

Min(S) == CHOOSE x \in S : \A y \in S : x <= y

\* const x = v; Op(x): v is evaluated once, whatever the number of its uses in Op
Const(v, Op(_)) == CHOOSE r \in {Op(x) : x \in {v}} : TRUE

\* while (lines.length > 0 && lines[0] === '') { lines.shift() }
RECURSIVE DropLeadingBlank(_)
DropLeadingBlank(ls) ==
  IF Len(ls) > 0 /\ ls[1] = "" THEN DropLeadingBlank(Tail(ls)) ELSE ls

\* while (lines.length > 0 && lines[lines.length - 1] === '') { lines.pop() }
RECURSIVE DropTrailingBlank(_)
DropTrailingBlank(ls) ==
  IF Len(ls) > 0 /\ ls[Len(ls)] = ""
  THEN DropTrailingBlank(SubSeq(ls, 1, Len(ls) - 1))
  ELSE ls

-----------------------------------------------------------------------------
(* Dictionaries: plain objects, as sequences of [key, value] in insertion  *)
(* order.                                                                  *)

DictKeys(d) == {d[i].key : i \in 1..Len(d)}

DictHas(d, k) == \E i \in 1..Len(d) : d[i].key = k

DictIndex(d, k) == CHOOSE i \in 1..Len(d) : d[i].key = k

\* d[k], for a key that is present
DictGet(d, k) == d[DictIndex(d, k)].value

\* d[k] = v
DictPut(d, k, v) ==
  IF DictHas(d, k)
  THEN [d EXCEPT ![DictIndex(d, k)].value = v]
  ELSE Append(d, [key |-> k, value |-> v])

-----------------------------------------------------------------------------
(* RawReader: comments and doctexts.                                       *)

\* a shorter separator line
SeparatorDashes == "--"

SEPARATOR == "---"

\* fullText.match(/^[*/]([\w\W]*?)(?:\*)?$/): the captured group, if any
MarkerMatch(fullText) ==
  IF Len(fullText) = 0 \/ Ch(fullText, 1) \notin {"*", "/"} THEN <<>>
  ELSE LET body == SubSeq(fullText, 2, Len(fullText)) IN
       IF Len(body) > 0 /\ Ch(body, Len(body)) = "*"
       THEN <<SubSeq(body, 1, Len(body) - 1)>>
       ELSE <<body>>

\* it.replace(/^\s*X/, '') for X one of '*' and '/'
StripLeading(line, x) ==
  LET n == LeadingSpaces(line) IN
  IF n < Len(line) /\ Ch(line, n + 1) = x
  THEN SubSeq(line, n + 2, Len(line))
  ELSE line

\* the last index p after the first non-space character with two whitespace
\* characters at p and p + 1: where the greedy (\S.*) of the collapse ends; 0 if none
CollapseAt(line) ==
  LET first == LeadingSpaces(line) + 1
      ps == {p \in (first + 1)..(Len(line) - 1) :
               IsSpace(Ch(line, p)) /\ IsSpace(Ch(line, p + 1))}
  IN  IF ps = {} THEN 0 ELSE CHOOSE p \in ps : \A q \in ps : q <= p

\* it.replace(/(\S.*)\s{2,}/, '$1 ').trimEnd()
CollapseLine(line) ==
  LET p == CollapseAt(line) IN
  TrimEnd(IF p = 0 THEN line
          ELSE SubSeq(line, 1, p - 1) \o " " \o SubSeq(line, p + 2, Len(line)))

\* Math.min(...lines.filter(it => it !== '').map(it => it.match(/^\s*/)[0].length));
\* it is Infinity when every line is '', and slicing '' by it or by 0 gives ''
StartIndentLength(lines) ==
  LET ns == {LeadingSpaces(lines[i]) : i \in {j \in 1..Len(lines) : lines[j] # ""}}
  IN  IF ns = {} THEN 0 ELSE Min(ns)

\* mergeComments: the RawDoctext of a run of comments (indices into comments), if any
mergeComments(cs, nodes) ==
  IF Len(nodes) = 0 THEN <<>>
  ELSE
    LET lineno == cs[nodes[1]].start
        fullText == Join([i \in 1..Len(nodes) |-> cs[nodes[i]].value], "\n")
        match == MarkerMatch(fullText)
    IN  IF match = <<>> THEN <<>>
        ELSE
          LET lines0 == SplitLines(match[1])
              lines1 == IF cs[nodes[1]].type = "Block"
                        THEN [i \in 1..Len(lines0) |-> StripLeading(lines0[i], "*")]
                        ELSE [i \in 1..Len(lines0) |-> StripLeading(lines0[i], "/")]
              indent == StartIndentLength(lines1)
              lines2 == [i \in 1..Len(lines1) |->
                           CollapseLine(SubSeq(lines1[i], indent + 1, Len(lines1[i])))]
              lines3 == DropTrailingBlank(DropLeadingBlank(lines2))
              separate == Len(lines3) > 0 /\ lines3[Len(lines3)] = SEPARATOR
              lines4 == IF separate
                        THEN DropTrailingBlank(SubSeq(lines3, 1, Len(lines3) - 1))
                        ELSE lines3
          IN  <<[lineno |-> lineno, lines |-> lines4, separate |-> separate,
                 nodes |-> nodes]>>

\* the loop closing the run at a comment that starts after the line the last one ends on
RECURSIVE findDoctextsSameLine(_, _, _, _, _, _)
findDoctextsSameLine(cs, idx, i, lastCommentEnd, current, acc) ==
  IF i > Len(idx)
  THEN IF Len(current) > 0 THEN acc \o mergeComments(cs, current) ELSE acc
  ELSE
    LET c == cs[idx[i]]
        close == lastCommentEnd # <<>> /\ c.start > lastCommentEnd[1]
                 /\ Len(current) > 0
    IN  Const(IF close THEN acc \o mergeComments(cs, current) ELSE acc,
              LAMBDA acc1 :
                findDoctextsSameLine(cs, idx, i + 1, <<c.end>>,
                                     IF close THEN <<idx[i]>> ELSE Append(current, idx[i]),
                                     acc1))

\* findDoctexts: the loop over the comments from index i on
RECURSIVE findDoctextsFrom(_, _, _, _, _, _)
findDoctextsFrom(cs, idx, i, lastCommentEnd, current, acc) ==
  IF i > Len(idx)
  THEN IF Len(current) > 0 THEN acc \o mergeComments(cs, current) ELSE acc
  ELSE
    LET c == cs[idx[i]]
        close == lastCommentEnd # <<>> /\ c.start > lastCommentEnd[1] + 1
                 /\ Len(current) > 0
    IN  Const(IF close THEN acc \o mergeComments(cs, current) ELSE acc,
              LAMBDA acc1 :
                findDoctextsFrom(cs, idx, i + 1, <<c.end>>,
                                 IF close THEN <<idx[i]>> ELSE Append(current, idx[i]),
                                 acc1))

findDoctexts(cs, idx) == findDoctextsFrom(cs, idx, 1, <<>>, <<>>, <<>>)

\* the filter of read(): the comments inside the literal's line span
RECURSIVE SelectIndices(_, _, _)
SelectIndices(cs, loc, i) ==
  IF i > Len(cs) THEN <<>>
  ELSE (IF cs[i].start < loc.start \/ cs[i].end > loc.end THEN <<>> ELSE <<i>>)
       \o SelectIndices(cs, loc, i + 1)

-----------------------------------------------------------------------------
(* RawReader: documentables and attribution.                               *)

\* isKeyIncluded, for string patterns
isKeyIncluded(key, wl, bl) ==
  IF key \in bl THEN FALSE
  ELSE IF wl = {} THEN TRUE
  ELSE key \in wl

\* findDocumentables: the Property nodes whose key is included, in walk order
findDocumentables(ps, wl, bl) ==
  SelectSeq(ps, LAMBDA p : isKeyIncluded(p.key, wl, bl))

\* findClosestDoctext without the break at prevLine
RECURSIVE findClosestNoBreak(_, _, _, _)
findClosestNoBreak(reversed, i, line, prevLine) ==
  IF i > Len(reversed) THEN 0
  ELSE IF reversed[i].lineno < line THEN i
  ELSE findClosestNoBreak(reversed, i + 1, line, prevLine)

\* findClosestDoctext that also takes a block starting on the entry's own line
RECURSIVE findClosestInclusive(_, _, _, _)
findClosestInclusive(reversed, i, line, prevLine) ==
  IF i > Len(reversed) THEN 0
  ELSE IF reversed[i].lineno < prevLine THEN 0
  ELSE IF reversed[i].lineno <= line THEN i
  ELSE findClosestInclusive(reversed, i + 1, line, prevLine)

\* findClosestDoctext's scan of reversed from index i on: the index found, or 0
RECURSIVE findClosestDoctext(_, _, _, _)
findClosestDoctext(reversed, i, line, prevLine) ==
  IF i > Len(reversed) THEN 0
  ELSE IF reversed[i].lineno < prevLine THEN 0
  ELSE IF reversed[i].lineno < line THEN i
  ELSE findClosestDoctext(reversed, i + 1, line, prevLine)

\* Array.prototype.indexOf, 0 when absent
IndexOf(ss, x) ==
  IF \E i \in 1..Len(ss) : ss[i] = x
  THEN Min({i \in 1..Len(ss) : ss[i] = x})
  ELSE 0

\* unmatched.splice(unmatched.indexOf(doctext)): everything from the block on is removed
SpliceFrom(ss, x) ==
  LET i == IF IndexOf(ss, x) = 0 THEN Len(ss) ELSE IndexOf(ss, x) IN
  SubSeq(ss, 1, i - 1)

\* unmatched.splice(unmatched.indexOf(doctext), 1); splice(-1, 1) removes the last element
SpliceOut(ss, x) ==
  LET i == IF IndexOf(ss, x) = 0 THEN Len(ss) ELSE IndexOf(ss, x) IN
  [j \in 1..(IF Len(ss) = 0 THEN 0 ELSE Len(ss) - 1) |->
     IF j < i THEN ss[j] ELSE ss[j + 1]]

\* matchDocumentablesWithDoctexts: the loop over the documentables from index i on
RECURSIVE matchFrom(_, _, _, _, _, _)
matchFrom(ds, i, prevLine, reversed, matched, unmatched) ==
  IF i > Len(ds) THEN [matched |-> matched, unmatched |-> unmatched]
  ELSE
    LET k == findClosestDoctext(reversed, 1, ds[i].line, prevLine) IN
    Const(
      IF k = 0
      THEN [matched |-> Append(matched, [documentable |-> ds[i], doctext |-> <<>>]),
            unmatched |-> unmatched]
      ELSE [matched |-> Append(matched, [documentable |-> ds[i],
                                         doctext |-> <<reversed[k]>>]),
            unmatched |-> SpliceOut(unmatched, reversed[k])],
      LAMBDA m : matchFrom(ds, i + 1, ds[i].line, reversed, m.matched, m.unmatched))

\* matchDocumentablesWithDoctexts scanning the blocks top down instead of bottom up
matchWithoutReverse(ds, dts) ==
  Const(SelectSeq(dts, LAMBDA d : ~d.separate),
        LAMBDA reversed : matchFrom(ds, 1, -1, reversed, <<>>, dts))

matchDocumentablesWithDoctexts(ds, dts) ==
  Const(Reverse(SelectSeq(dts, LAMBDA d : ~d.separate)),
        LAMBDA reversed : matchFrom(ds, 1, -1, reversed, <<>>, dts))

\* read(): the loop that builds matched and undocumentedKeys from matchedArray
RECURSIVE buildRaw(_, _, _, _)
buildRaw(ma, i, matched, undocumentedKeys) ==
  IF i > Len(ma) THEN [matched |-> matched, undocumentedKeys |-> undocumentedKeys]
  ELSE IF ma[i].doctext = <<>>
  THEN Const(Append(undocumentedKeys, ma[i].documentable.key),
             LAMBDA u : buildRaw(ma, i + 1, matched, u))
  ELSE Const(DictPut(matched, ma[i].documentable.key, ma[i].doctext[1]),
             LAMBDA m : buildRaw(ma, i + 1, m, undocumentedKeys))

EmptyResult == [matched |-> <<>>, unmatched |-> <<>>, undocumentedKeys |-> <<>>]

\* the nodes under a node that recurseNode visits, in the order of the node's fields: of
\* a call, the calls inside its callee, then its arguments
Children(node) ==
  IF node.type = "CallExpression" THEN node.callee.calls \o node.arguments ELSE <<>>

\* the test of findObjectExpression
CallTest(node, cs) ==
  /\ node.line = cs.lineno
  /\ node.type = "CallExpression"
  /\ cs.functionName # <<>> =>
       IF node.callee.type = "Identifier" THEN node.callee.name = cs.functionName[1]
       ELSE IF node.callee.type = "MemberExpression"
       THEN node.callee.property = "Identifier" /\ node.callee.name = cs.functionName[1]
       ELSE FALSE

\* findNode that looks into a node's children before it tests the node itself
RECURSIVE findNodeChildrenFirst(_, _, _)
findNodeChildrenFirst(nodes, i, cs) ==
  IF i > Len(nodes) THEN <<>>
  ELSE Const(findNodeChildrenFirst(Children(nodes[i]), 1, cs),
             LAMBDA r : IF r # <<>> THEN r
                        ELSE IF CallTest(nodes[i], cs) THEN <<nodes[i]>>
                        ELSE findNodeChildrenFirst(nodes, i + 1, cs))

\* findNode: the first node, parents before children and in source order, that passes
\* the test; nodes[i..] are the nodes still to visit at one level
RECURSIVE findNode(_, _, _)
findNode(nodes, i, cs) ==
  IF i > Len(nodes) THEN <<>>
  ELSE IF CallTest(nodes[i], cs) THEN <<nodes[i]>>
  ELSE Const(findNode(Children(nodes[i]), 1, cs),
             LAMBDA r : IF r # <<>> THEN r ELSE findNode(nodes, i + 1, cs))

\* findObjectExpression: [node, error]
findObjectExpression(prog, cs) ==
  Const(findNode(prog.body, 1, cs),
        LAMBDA callNode :
          IF callNode = <<>> \/ Len(callNode[1].arguments) # 1
             \/ callNode[1].arguments[1].type # "ObjectExpression"
          THEN [node |-> <<>>, error |-> "ObjectLiteralNotFound"]
          ELSE [node |-> <<callNode[1].arguments[1]>>, error |-> "none"])

\* RawReader.read
Read ==
  /\ pc = "read"
  /\ \E o \in {findObjectExpression(program, callsite)} :
       IF o.error # "none"
       THEN /\ pc' = "failed"
            /\ error' = o.error
            /\ UNCHANGED <<objectNode, doctexts, matchedArray, raw>>
       ELSE
         \E dts \in {findDoctexts(comments, SelectIndices(comments, o.node[1].loc, 1))} :
           \E m \in {matchDocumentablesWithDoctexts(
                        findDocumentables(props, whitelist, blacklist), dts)} :
             \E r \in {buildRaw(m.matched, 1, <<>>, <<>>)} :
               /\ objectNode' = o.node
               /\ doctexts' = dts
               /\ matchedArray' = m.matched
               /\ raw' = [matched |-> r.matched, unmatched |-> m.unmatched,
                          undocumentedKeys |-> r.undocumentedKeys]
               /\ pc' = "parse"
               /\ error' = error
  /\ UNCHANGED <<inputs, parsed, copied, result, parserVars>>

-----------------------------------------------------------------------------
(* DoctextParser.                                                          *)

\* names that every plain object inherits from Object.prototype: obj[name] is a function,
\* not null, for a plain object (the entity table, the dictionary built by mapValues) that
\* has no such key of its own
ObjectPrototypeKeys == {"toString", "constructor", "valueOf", "hasOwnProperty"}

EntityNames == {"copy", "property", "link"}

\* defaultEntities: args and content of each entity
defaultEntities ==
  [n \in EntityNames |->
     IF n = "copy" THEN [args |-> 1, content |-> FALSE]
     ELSE [args |-> 1, content |-> TRUE]]

\* line.match(ENTITY_CONTENT_RE), /^\s{2,}(.*)$/
ContentMatch(line) ==
  Len(line) >= 2 /\ IsSpace(Ch(line, 1)) /\ IsSpace(Ch(line, 2))

\* a content line kept with its indentation
ContentLineIndented(line) == TrimEnd(line)

\* line.replace(/^\s{2}/, '').trimEnd()
ContentLine(line) ==
  TrimEnd(IF ContentMatch(line) THEN SubSeq(line, 3, Len(line)) ELSE line)

\* length of the match of /^\w*/
RECURSIVE LeadingWord(_)
LeadingWord(s) ==
  IF Len(s) > 0 /\ IsWord(Head(s)) THEN 1 + LeadingWord(Tail(s)) ELSE 0

\* length of the match of /^\S*/
RECURSIVE LeadingNonSpace(_)
LeadingNonSpace(s) ==
  IF Len(s) > 0 /\ ~IsSpace(Head(s)) THEN 1 + LeadingNonSpace(Tail(s)) ELSE 0

\* line.match(ENTITY_RE), /^\s*@(\w+)(?:\s+(.*?))?$/: <<[name, remainder]>>, remainder
\* being match[2] ?? '', or <<>> when the line is no entity header
EntityMatch(line) ==
  LET n == LeadingSpaces(line)
      after == SubSeq(line, n + 2, Len(line))
      w == LeadingWord(after)
      tail == SubSeq(after, w + 1, Len(after))
  IN  IF n >= Len(line) \/ Ch(line, n + 1) # "@" THEN <<>>
      ELSE IF w = 0 THEN <<>>
      ELSE IF Len(tail) = 0 THEN <<[name |-> SubSeq(after, 1, w), remainder |-> ""]>>
      ELSE IF ~IsSpace(Head(tail)) THEN <<>>
      ELSE <<[name |-> SubSeq(after, 1, w), remainder |-> TrimStart(tail)]>>

\* remainder.match(/\s*(\S+)(?:\s+(.*)|$)/): <<[arg, remainder]>>, remainder being
\* match[2] ?? '', or <<>> when there is no argument
ArgMatch(remainder) ==
  LET s == TrimStart(remainder)
      w == LeadingNonSpace(s)
  IN  IF w = 0 THEN <<>>
      ELSE <<[arg |-> SubSeq(s, 1, w),
              remainder |-> TrimStart(SubSeq(s, w + 1, Len(s)))]>>

\* first index p with whitespace at p and p + 1, 0 if none
RECURSIVE FirstRun(_, _)
FirstRun(s, p) ==
  IF p >= Len(s) THEN 0
  ELSE IF IsSpace(Ch(s, p)) /\ IsSpace(Ch(s, p + 1)) THEN p
  ELSE FirstRun(s, p + 1)

\* s.replace(/\s{2,}/, ' '): the first run of whitespace only
ReplaceFirstRun(s) ==
  LET p == FirstRun(s, 1) IN
  IF p = 0 THEN s
  ELSE SubSeq(s, 1, p - 1) \o " "
       \o TrimStart(SubSeq(s, p, Len(s)))

\* lines.findIndex(it => it.trim() === ''), 0 if none
BlankIndex(lines) ==
  IF \E i \in 1..Len(lines) : Trim(lines[i]) = ""
  THEN Min({i \in 1..Len(lines) : Trim(lines[i]) = ""})
  ELSE 0

\* util.summary that does not stop at the first blank line
SummaryWhole(lines) == Trim(ReplaceFirstRun(Join(lines, " ")))

\* util.summary
Summary(lines) ==
  LET blankIndex == BlankIndex(lines) IN
  Trim(ReplaceFirstRun(Join(IF blankIndex = 0 THEN lines
                            ELSE SubSeq(lines, 1, blankIndex - 1), " ")))

\* util.body, skipEntities = false
Body(lines) == Trim(ReplaceFirstRun(Join(lines, " ")))

\* util.nested
Nested(doctext, lines) ==
  [lines |-> lines, lineno |-> doctext.lineno, separate |-> FALSE,
   nodes |-> doctext.nodes]

\* const entities = {} as E; ref is the identity of the object
EmptyEntities(ref) ==
  [ref |-> ref, copy |-> <<>>, links |-> <<>>, properties |-> <<>>]

\* defaultEntities.copy.add
AddCopy(entities, args) == [entities EXCEPT !.copy = <<args[1]>>]

\* defaultEntities.property.add; a properties object created here has identity ref + 2
AddProperty(entities, args, lines, doctext) ==
  LET ps == IF entities.properties = <<>>
            THEN [ref |-> entities.ref + 2, items |-> <<>>]
            ELSE entities.properties[1]
  IN  [entities EXCEPT !.properties =
         <<[ps EXCEPT !.items = DictPut(ps.items, args[1], Nested(doctext, lines))]>>]

\* the caption of defaultEntities.link.add
LinkCaption(args, lines) == IF Len(lines) > 0 THEN Body(lines) ELSE args[1]

\* defaultEntities.link.add; a links array created here has identity ref + 1
AddLink(entities, args, lines) ==
  LET ls == IF entities.links = <<>>
            THEN [ref |-> entities.ref + 1, items |-> <<>>]
            ELSE entities.links[1]
  IN  [entities EXCEPT !.links =
         <<[ls EXCEPT !.items =
              Append(ls.items, [href |-> args[1], caption |-> LinkCaption(args, lines)])]>>]

\* addEntity: meta.add(entities, args, lines, util)
addEntity(st, doctext, cur) ==
  [st EXCEPT
     !.entities =
        IF cur.name = "copy" THEN AddCopy(st.entities, cur.args)
        ELSE IF cur.name = "property"
        THEN AddProperty(st.entities, cur.args, cur.lines, doctext)
        ELSE AddLink(st.entities, cur.args, cur.lines),
     !.calls = Append(st.calls, cur)]

\* the argument loop of extractEntities: <<[args, remainder]>>, or <<>> when one is missing
RECURSIVE ParseArgs(_, _, _)
ParseArgs(n, remainder, args) ==
  IF n = 0 THEN <<[args |-> args, remainder |-> remainder]>>
  ELSE LET m == ArgMatch(remainder) IN
       IF m = <<>> THEN <<>>
       ELSE ParseArgs(n - 1, m[1].remainder, Append(args, m[1].arg))

\* extractEntities: the part of the loop body that handles an entity header
HeaderStep(st, doctext, m) ==
  LET st1 == IF st.current # <<>> THEN addEntity(st, doctext, st.current[1]) ELSE st IN
  IF m.name \notin EntityNames /\ m.name \notin ObjectPrototypeKeys
  THEN [st1 EXCEPT !.error = "UnknownEntity"]
  ELSE IF m.name \notin EntityNames
  THEN \* meta is an inherited function: meta.args and meta.content are undefined, so no
       \* argument is read and content is refused, and meta.add is not a function
       IF Len(Trim(m.remainder)) > 0 THEN [st1 EXCEPT !.error = "InvalidEntity"]
       ELSE [st1 EXCEPT !.error = "TypeError"]
  ELSE
    LET meta == defaultEntities[m.name]
        parsedArgs == ParseArgs(meta.args, m.remainder, <<>>)
    IN  IF parsedArgs = <<>> THEN [st1 EXCEPT !.error = "InvalidEntity"]
        ELSE
          LET a == parsedArgs[1]
              cur == [name |-> m.name, args |-> a.args, lines |-> <<>>]
          IN  IF Len(Trim(a.remainder)) > 0
              THEN IF ~meta.content THEN [st1 EXCEPT !.error = "InvalidEntity"]
                   ELSE [addEntity(st1, doctext,
                                   [cur EXCEPT !.lines = <<Trim(a.remainder)>>])
                           EXCEPT !.current = <<>>]
              ELSE IF ~meta.content
              THEN [addEntity(st1, doctext, cur) EXCEPT !.current = <<>>]
              ELSE [st1 EXCEPT !.current = <<cur>>]

\* the loop body refusing an indented line when no entity is open
LineStepStrict(st, doctext, line) ==
  IF ContentMatch(line) \/ (line = "" /\ st.current # <<>>)
  THEN IF st.current = <<>>
       THEN [st EXCEPT !.error = "InvalidEntity"]
       ELSE [st EXCEPT !.current[1].lines = Append(@, ContentLine(line))]
  ELSE LET m == EntityMatch(line) IN
       IF m = <<>> THEN [st EXCEPT !.rest = Append(st.rest, line)]
       ELSE HeaderStep(st, doctext, m[1])

\* extractEntities: the loop body for one line
LineStep(st, doctext, line) ==
  IF ContentMatch(line) \/ (line = "" /\ st.current # <<>>)
  THEN IF st.current = <<>>
       THEN [st EXCEPT !.rest = Append(st.rest, line)]
       ELSE [st EXCEPT !.current[1].lines = Append(@, ContentLine(line))]
  ELSE LET m == EntityMatch(line) IN
       IF m = <<>> THEN [st EXCEPT !.rest = Append(st.rest, line)]
       ELSE HeaderStep(st, doctext, m[1])

\* the loop that leaves an entity that is open at the end of the lines unfinalized
RECURSIVE extractFromOpenLeft(_, _, _)
extractFromOpenLeft(st, doctext, i) ==
  IF st.error # "none" THEN st
  ELSE IF i > Len(doctext.lines) THEN st
  ELSE Const(LineStep(st, doctext, doctext.lines[i]),
             LAMBDA st1 : extractFromOpenLeft(st1, doctext, i + 1))

RECURSIVE extractFrom(_, _, _)
extractFrom(st, doctext, i) ==
  IF st.error # "none" THEN st
  ELSE IF i > Len(doctext.lines)
  THEN IF st.current # <<>>
       THEN [addEntity(st, doctext, st.current[1]) EXCEPT !.current = <<>>]
       ELSE st
  ELSE Const(LineStep(st, doctext, doctext.lines[i]),
             LAMBDA st1 : extractFrom(st1, doctext, i + 1))

\* extractEntities: [entities, rest, error], and calls, the handler invocations in order
extractEntities(doctext, ref) ==
  extractFrom([entities |-> EmptyEntities(ref), rest |-> <<>>, current |-> <<>>,
               error |-> "none", calls |-> <<>>], doctext, 1)

\* DoctextParser.parse: [doctext, error]; ref is the identity given to the entities object
Parse(rawDoctext, ref) ==
  Const(extractEntities(rawDoctext, ref),
        LAMBDA e :
          [doctext |-> [lineno |-> rawDoctext.lineno,
                        summary |-> Summary(e.rest),
                        body |-> Body(e.rest),
                        entities |-> e.entities,
                        nodes |-> rawDoctext.nodes],
           error |-> e.error])

-----------------------------------------------------------------------------
(* DoctextReader: parsing and resolving.                                   *)

\* raws.map(it => this.parser.parse(it)) up to the first error; the i-th parse gives its
\* entities the identities ref + 3 * (i - 1) and the two after it
RECURSIVE parseAllFrom(_, _, _, _)
parseAllFrom(raws, i, ref, acc) ==
  IF i > Len(raws) THEN [docs |-> acc, error |-> "none"]
  ELSE Const(Parse(raws[i], ref + 3 * (i - 1)),
             LAMBDA p :
               IF p.error # "none" THEN [docs |-> acc, error |-> p.error]
               ELSE Const(Append(acc, p.doctext),
                          LAMBDA acc1 : parseAllFrom(raws, i + 1, ref, acc1)))

\* parseAndResolve, lines 112-114
ParseAll ==
  /\ pc = "parse"
  /\ LET n == Len(raw.matched) IN
     \E m \in {parseAllFrom([i \in 1..n |-> raw.matched[i].value], 1, 1, <<>>)} :
       \E u \in {IF m.error # "none" THEN m
                  ELSE parseAllFrom(raw.unmatched, 1, 1 + 3 * n, <<>>)} :
         IF u.error # "none"
         THEN /\ pc' = "failed"
              /\ error' = u.error
              /\ parsed' = parsed
         ELSE /\ pc' = "copy"
              /\ error' = error
              /\ parsed' = [matched |-> [i \in 1..n |->
                                           [key |-> raw.matched[i].key,
                                            value |-> m.docs[i]]],
                            unmatched |-> u.docs,
                            undocumentedKeys |-> raw.undocumentedKeys]
  /\ UNCHANGED <<inputs, objectNode, doctexts, matchedArray, raw, copied, result, parserVars>>

\* entities of a Document whose entities field is undefined: no object, no identity
UndefinedEntities == [ref |-> -1, copy |-> <<>>, links |-> <<>>, properties |-> <<>>]

\* cloneDeep that returns its argument: the copy is the original's own objects
cloneAlias(entities, ref) == entities

\* cloneDeep(original.entities): equal values in new objects, identities ref, ref + 1, ref + 2
cloneDeep(entities, ref) ==
  [entities EXCEPT
     !.ref = ref,
     !.links = IF @ = <<>> THEN @ ELSE <<[@[1] EXCEPT !.ref = ref + 1]>>,
     !.properties = IF @ = <<>> THEN @ ELSE <<[@[1] EXCEPT !.ref = ref + 2]>>]

\* doctexts[key] == null
LookupIsNull(dict, key) == ~DictHas(dict, key) /\ key \notin ObjectPrototypeKeys

\* the loop taking the entries of doctexts from the last to the first
RECURSIVE resolveCopyBackwards(_, _, _)
resolveCopyBackwards(dict, i, ref) ==
  IF i > Len(dict) THEN [matched |-> dict, error |-> "none"]
  ELSE
    LET j == Len(dict) + 1 - i
        doctext == dict[j].value
    IN
    IF doctext.entities.copy = <<>> THEN resolveCopyBackwards(dict, i + 1, ref)
    ELSE IF LookupIsNull(dict, doctext.entities.copy[1])
    THEN [matched |-> dict, error |-> "ReferencedKeyNotFound"]
    ELSE IF ~DictHas(dict, doctext.entities.copy[1])
    THEN Const([dict EXCEPT ![j].value.entities = UndefinedEntities],
               LAMBDA dict1 : resolveCopyBackwards(dict1, i + 1, ref))
    ELSE
      LET original == DictGet(dict, doctext.entities.copy[1]) IN
      Const([dict EXCEPT ![j].value =
               [doctext EXCEPT !.summary = original.summary,
                               !.body = original.body,
                               !.entities = cloneDeep(original.entities, ref)]],
            LAMBDA dict1 : resolveCopyBackwards(dict1, i + 1, ref + 3))

\* resolveCopyDoctexts: the loop over the entries of doctexts from index i on
RECURSIVE resolveCopyFrom(_, _, _)
resolveCopyFrom(dict, i, ref) ==
  IF i > Len(dict) THEN [matched |-> dict, error |-> "none"]
  ELSE
    LET doctext == dict[i].value IN
    IF doctext.entities.copy = <<>> THEN resolveCopyFrom(dict, i + 1, ref)
    ELSE IF LookupIsNull(dict, doctext.entities.copy[1])
    THEN [matched |-> dict, error |-> "ReferencedKeyNotFound"]
    ELSE IF ~DictHas(dict, doctext.entities.copy[1])
    THEN \* original is an inherited function: pick() gives {}, cloneDeep(undefined) undefined
         Const([dict EXCEPT ![i].value.entities = UndefinedEntities],
               LAMBDA dict1 : resolveCopyFrom(dict1, i + 1, ref))
    ELSE
      LET original == DictGet(dict, doctext.entities.copy[1]) IN
      Const([dict EXCEPT ![i].value =
               [doctext EXCEPT !.summary = original.summary,
                               !.body = original.body,
                               !.entities = cloneDeep(original.entities, ref)]],
            LAMBDA dict1 : resolveCopyFrom(dict1, i + 1, ref + 3))

\* the number of entities objects made by ParseAll, times the identities each may use
ParsedRefs == 3 * (Len(parsed.matched) + Len(parsed.unmatched))

\* parseAndResolve, line 116
ResolveCopy ==
  /\ pc = "copy"
  /\ \E r \in {resolveCopyFrom(parsed.matched, 1, 1 + ParsedRefs)} :
     IF r.error # "none"
     THEN /\ pc' = "failed"
          /\ error' = r.error
          /\ copied' = copied
     ELSE /\ pc' = "props"
          /\ error' = error
          /\ copied' = [parsed EXCEPT !.matched = r.matched]
  /\ UNCHANGED <<inputs, objectNode, doctexts, matchedArray, raw, parsed, result, parserVars>>

\* resolvePropsFor's work for one doctext: [fullkey, propdoctext] per property, in order
propsFor(key, doctext) ==
  IF doctext.entities.properties = <<>> THEN <<>>
  ELSE LET items == doctext.entities.properties[1].items IN
       [j \in 1..Len(items) |->
          [fullkey |-> IF key = <<>> THEN items[j].key
                       ELSE key[1] \o "." \o items[j].key,
           propdoctext |-> items[j].value]]

\* resolveProperties' two loops: over objectEntries(matched) as they are when the loop
\* starts, then over unmatched
RECURSIVE propsOfMatched(_, _)
propsOfMatched(dict, i) ==
  IF i > Len(dict) THEN <<>>
  ELSE propsFor(<<dict[i].key>>, dict[i].value) \o propsOfMatched(dict, i + 1)

RECURSIVE propsOfUnmatched(_, _)
propsOfUnmatched(docs, i) ==
  IF i > Len(docs) THEN <<>>
  ELSE propsFor(<<>>, docs[i]) \o propsOfUnmatched(docs, i + 1)

\* matched[fullkey] = this.parser.parse(propdoctext), for each property in turn
RECURSIVE insertProps(_, _, _, _)
insertProps(matched, work, i, ref) ==
  IF i > Len(work) THEN [matched |-> matched, error |-> "none"]
  ELSE Const(Parse(work[i].propdoctext, ref),
             LAMBDA p :
               IF p.error # "none" THEN [matched |-> matched, error |-> p.error]
               ELSE Const(DictPut(matched, work[i].fullkey, p.doctext),
                          LAMBDA m : insertProps(m, work, i + 1, ref + 3)))

\* the expansion run once more over the entries of matched it has left
resolvePropertiesTwice(matched, unmatched, ref) ==
  Const(propsOfMatched(matched, 1) \o propsOfUnmatched(unmatched, 1),
        LAMBDA work :
          Const(insertProps(matched, work, 1, ref),
                LAMBDA r :
                  IF r.error # "none" THEN r
                  ELSE Const(propsOfMatched(r.matched, 1),
                             LAMBDA again :
                               insertProps(r.matched, again, 1, ref + 3 * Len(work)))))

resolveProperties(matched, unmatched, ref) ==
  Const(propsOfMatched(matched, 1) \o propsOfUnmatched(unmatched, 1),
        LAMBDA work : insertProps(matched, work, 1, ref))

\* parseAndResolve, lines 117-118
ResolveProperties ==
  /\ pc = "props"
  /\ \E r \in {resolveProperties(copied.matched, copied.unmatched,
                                   1 + ParsedRefs + 3 * Len(copied.matched))} :
         IF r.error # "none"
         THEN /\ pc' = "failed"
              /\ error' = r.error
              /\ result' = result
         ELSE /\ pc' = "done"
              /\ error' = error
              /\ result' = [copied EXCEPT !.matched = r.matched]
  /\ UNCHANGED <<inputs, objectNode, doctexts, matchedArray, raw, parsed, copied, parserVars>>

-----------------------------------------------------------------------------
(* Inputs.                                                                 *)

\* the comments a source line can hold: [type, value, span], span the number of
\* lines the comment extends over
LineDoc == [type |-> "Line", value |-> "/ Foo.", span |-> 1]
LinePlain == [type |-> "Line", value |-> " x", span |-> 1]
BlockSeparate == [type |-> "Block", value |-> "* Top.\n   * --- ", span |-> 2]
NoComment == [type |-> "none", value |-> "", span |-> 0]

CommentChoices == {NoComment, LineDoc, LinePlain, BlockSeparate}

\* the comment tokens of a source whose line l starts the comment f[l], from line l on
RECURSIVE CommentsOf(_, _)
CommentsOf(f, l) ==
  IF l > MaxLine THEN <<>>
  ELSE (IF f[l].type = "none" THEN <<>>
        ELSE <<[type |-> f[l].type, value |-> f[l].value,
                start |-> l, end |-> l + f[l].span - 1]>>)
       \o CommentsOf(f, l + 1)

Keys == {"foo", "bar"}

\* Property nodes in walk order: their start lines never decrease
PropSeqs ==
  UNION {{ps \in [1..n -> [key : Keys, line : 1..MaxLine]] :
            \A i \in 1..(n - 1) : ps[i].line <= ps[i + 1].line} : n \in 0..MaxProps}

\* an ObjectExpression node: the literal id, on the lines loc
ObjectExpression(id, loc) ==
  [type |-> "ObjectExpression", line |-> loc.start, id |-> id, loc |-> loc]

\* the source is the one call doctext({...}) whose literal spans the lines loc
TheLiteral(loc) ==
  /\ program = [type |-> "Program",
                body |-> <<[type |-> "CallExpression", line |-> loc.start,
                            callee |-> [type |-> "Identifier", name |-> "doctext",
                                        property |-> "none", calls |-> <<>>],
                            arguments |-> <<ObjectExpression(1, loc)>>]>>]
  /\ callsite = [lineno |-> loc.start, functionName |-> <<>>]

\* the state of readSync before RawReader.read
Start ==
  /\ pc = "read"
  /\ objectNode = <<>>
  /\ error = "none"
  /\ doctexts = <<>>
  /\ matchedArray = <<>>
  /\ raw = EmptyResult
  /\ parsed = EmptyResult
  /\ copied = EmptyResult
  /\ result = EmptyResult

NoRawDoctext == [lineno |-> 0, lines |-> <<>>, separate |-> FALSE, nodes |-> <<>>]

NoParse == [doctext |-> [lineno |-> 0, summary |-> "", body |-> "",
                         entities |-> EmptyEntities(0), nodes |-> <<>>],
            error |-> "none", rest |-> <<>>, calls |-> <<>>, parsed |-> FALSE]

\* the parser is not run on its own
ParserIdle == pIn = NoRawDoctext /\ pOut = NoParse

\* default configuration (config.ts:16-19)
DefaultConfig == whitelist = {} /\ blacklist = {}

\* Any placement of comments and entries on the lines of a literal.
Init ==
  /\ \E f \in [1..MaxLine -> CommentChoices] : comments = CommentsOf(f, 1)
  /\ props \in PropSeqs
  /\ TheLiteral([start |-> 1, end |-> MaxLine])
  /\ DefaultConfig
  /\ Start
  /\ ParserIdle

\* readSync, from RawReader.read to the ReadResult
Next == Read \/ ParseAll \/ ResolveCopy \/ ResolveProperties

Spec == Init /\ [][Next]_vars

-----------------------------------------------------------------------------
(* Attribution (Spec).                                                     *)

Documentables == findDocumentables(props, whitelist, blacklist)

AfterRead == pc # "read"

\* the blocks given to entries, with repetitions
Given == SelectSeq(matchedArray, LAMBDA m : m.doctext # <<>>)

\* the number of elements of ss equal to x
Count(ss, x) == Cardinality({i \in 1..Len(ss) : ss[i] = x})

\* C1: no block is given to two entries, every entry is listed once with at most one
\* block, and every separate block is in unmatched and is the value of no matched key.
C1_AtMostOne ==
  AfterRead =>
    /\ \A i, j \in 1..Len(Given) : Given[i].doctext = Given[j].doctext => i = j
    /\ Len(matchedArray) = Len(Documentables)
    /\ \A i \in 1..Len(matchedArray) :
         /\ matchedArray[i].documentable = Documentables[i]
         /\ Len(matchedArray[i].doctext) <= 1
    /\ \A i \in 1..Len(doctexts) :
         doctexts[i].separate =>
           /\ Count(raw.unmatched, doctexts[i]) = 1
           /\ \A j \in 1..Len(raw.matched) : raw.matched[j].value # doctexts[i]
           /\ \A j \in 1..Len(matchedArray) : matchedArray[j].doctext # <<doctexts[i]>>


\* the line of the entry enumerated before the i-th, -1 for the first
PrevLine(i) == IF i = 1 THEN -1 ELSE Documentables[i - 1].line

\* C1 witness: one entry has a block while a separate block that lies in the window of
\* another entry stays unmatched
C1_Witness ==
  /\ AfterRead
  /\ Len(Given) >= 1
  /\ \E k \in 1..Len(doctexts) : \E i \in 1..Len(matchedArray) :
       /\ doctexts[k].separate
       /\ doctexts[k].lineno >= PrevLine(i)
       /\ doctexts[k].lineno < matchedArray[i].documentable.line
       /\ matchedArray[i].doctext = <<>>
       /\ Count(raw.unmatched, doctexts[k]) = 1

\* the non-separate blocks that start above line
Above(line) ==
  {i \in 1..Len(doctexts) : ~doctexts[i].separate /\ doctexts[i].lineno < line}

\* the block the nearest-preceding rule gives the i-th entry, if any
Nearest(i) ==
  LET above == Above(Documentables[i].line) IN
  IF above = {} THEN <<>>
  ELSE LET b == CHOOSE k \in above :
                  \A l \in above : doctexts[l].lineno <= doctexts[k].lineno
       IN  IF doctexts[b].lineno >= PrevLine(i) THEN <<doctexts[b]>> ELSE <<>>

\* C2: each entry gets the non-separate block with the greatest lineno below its line,
\* provided that lineno is not below the previous entry's line, and no block otherwise;
\* every other block is left in unmatched.
C2_NearestPreceding ==
  AfterRead =>
    /\ Len(matchedArray) = Len(Documentables)
    /\ \A i \in 1..Len(matchedArray) : matchedArray[i].doctext = Nearest(i)
    /\ \A k \in 1..Len(doctexts) :
         (\A i \in 1..Len(Documentables) : Nearest(i) # <<doctexts[k]>>)
           => Count(raw.unmatched, doctexts[k]) = 1

\* C2 witness: two blocks lie between two entries; the second entry gets the nearer one
\* and the other block stays unmatched
C2_Witness ==
  /\ AfterRead
  /\ \E i \in 2..Len(matchedArray) : \E k \in 1..Len(doctexts) :
       /\ matchedArray[i].doctext # <<>>
       /\ ~doctexts[k].separate
       /\ doctexts[k].lineno >= PrevLine(i)
       /\ doctexts[k].lineno < matchedArray[i].doctext[1].lineno
       /\ Count(raw.unmatched, doctexts[k]) = 1

\* C3 as stated: a matched block's lineno lies strictly between the previous entry's line
\* and the line of its entry.
C3_OpenInterval ==
  AfterRead =>
    \A i \in 1..Len(matchedArray) :
      matchedArray[i].doctext # <<>> =>
        /\ matchedArray[i].doctext[1].lineno > PrevLine(i)
        /\ matchedArray[i].doctext[1].lineno < matchedArray[i].documentable.line

\* C3 amended: a matched block's lineno is at least the previous entry's line and
\* strictly less than the line of its entry.
C3_HalfOpenInterval ==
  AfterRead =>
    \A i \in 1..Len(matchedArray) :
      matchedArray[i].doctext # <<>> =>
        /\ matchedArray[i].doctext[1].lineno >= PrevLine(i)
        /\ matchedArray[i].doctext[1].lineno < matchedArray[i].documentable.line

\* C3 witness: a block that starts on the line of the previous entry is given to the
\* next entry
C3_Witness ==
  /\ AfterRead
  /\ \E i \in 2..Len(matchedArray) :
       /\ matchedArray[i].doctext # <<>>
       /\ matchedArray[i].doctext[1].lineno = PrevLine(i)

DistinctKeys ==
  \A i, j \in 1..Len(Documentables) :
    Documentables[i].key = Documentables[j].key => i = j

RawValues == [i \in 1..Len(raw.matched) |-> raw.matched[i].value]

\* C4: when the entries' key paths are pairwise distinct, every block of findDoctexts is
\* the value of exactly one matched key or one element of unmatched, never both, and
\* matched and unmatched hold nothing else.
C4_BlockConservation ==
  (AfterRead /\ DistinctKeys) =>
    /\ \A k \in 1..Len(doctexts) :
         Count(RawValues, doctexts[k]) + Count(raw.unmatched, doctexts[k]) = 1
    /\ Len(RawValues) + Len(raw.unmatched) = Len(doctexts)

\* C4 witness: with distinct keys, one block is matched and another is unmatched
C4_Witness ==
  /\ AfterRead
  /\ DistinctKeys
  /\ Len(raw.matched) >= 1
  /\ Len(raw.unmatched) >= 1
  /\ Len(Documentables) = 2

-----------------------------------------------------------------------------
(* Separate blocks (SpecMerge): one comment written from given content     *)
(* lines, with one entry on the line after it.                             *)

MaxContent == 3

ContentLines == {"Foo.", "", "---", "--- x", "  ---"}

\* content whose text column is the column after the comment prefix: some line with
\* text is not indented
ContentSeqs ==
  UNION {{L \in [1..n -> ContentLines] :
            \E i \in 1..n : L[i] # "" /\ LeadingSpaces(L[i]) = 0} : n \in 1..MaxContent}

\* the text of a block comment between its delimiters: an opening line, one ' * ' line per
\* content line, and the closing line
BlockValue(L) ==
  "*\n" \o Join([i \in 1..Len(L) |-> IF L[i] = "" THEN " *" ELSE " * " \o L[i]], "\n")
        \o "\n "

\* the comment tokens of the content L written from line l on as one block comment
\* or as '///' line comments
Written(L, style, l) ==
  IF style = "Block"
  THEN <<[type |-> "Block", value |-> BlockValue(L), start |-> l, end |-> l + Len(L) + 1]>>
  ELSE [i \in 1..Len(L) |->
          [type |-> "Line", value |-> IF L[i] = "" THEN "/" ELSE "/ " \o L[i],
           start |-> l + i - 1, end |-> l + i - 1]]

Styles == {"Block", "Line"}

InitMerge ==
  /\ \E L \in ContentSeqs : \E style \in Styles :
       /\ comments = Written(L, style, 1)
       /\ props = <<[key |-> "foo", line |-> comments[Len(comments)].end + 1]>>
       /\ TheLiteral([start |-> 1, end |-> comments[Len(comments)].end + 1])
  /\ DefaultConfig
  /\ Start
  /\ ParserIdle

SpecMerge == InitMerge /\ [][Next]_vars

\* the content lines without their leading and trailing blank lines
Trimmed(L) ==
  LET ne == {i \in 1..Len(L) : L[i] # ""} IN
  IF ne = {} THEN <<>>
  ELSE SubSeq(L, Min(ne), CHOOSE i \in ne : \A j \in ne : j <= i)

EndsWithSeparator(L) == Len(Trimmed(L)) > 0 /\ Trimmed(L)[Len(Trimmed(L))] = "---"

\* the lines of a separate block: without the '---' line and the blank lines before it
BeforeSeparator(L) == Trimmed(SubSeq(Trimmed(L), 1, Len(Trimmed(L)) - 1))

\* C5: the block of a comment is flagged separate exactly when the last of its stripped and
\* trimmed lines is '---'; then its lines lack the '---' line and the blank lines before
\* it, the entry directly after it is undocumented, and the block's Document is the one
\* element of unmatched; otherwise the lines are kept and the entry is documented by it.
C5_Separate ==
  \A L \in ContentSeqs : \A style \in Styles :
    (AfterRead /\ comments = Written(L, style, 1)) =>
      /\ Len(doctexts) = 1
      /\ doctexts[1].separate = EndsWithSeparator(L)
      /\ doctexts[1].lines = IF EndsWithSeparator(L) THEN BeforeSeparator(L) ELSE Trimmed(L)
      /\ EndsWithSeparator(L) =>
           /\ raw.matched = <<>>
           /\ raw.unmatched = doctexts
           /\ raw.undocumentedKeys = <<"foo">>
           /\ pc = "done" =>
                /\ result.matched = <<>>
                /\ result.undocumentedKeys = <<"foo">>
                /\ Len(result.unmatched) = 1
                /\ result.unmatched[1].lineno = doctexts[1].lineno
                /\ result.unmatched[1].nodes = doctexts[1].nodes
                /\ result.unmatched[1].body = Body(BeforeSeparator(L))
      /\ ~EndsWithSeparator(L) =>
           /\ raw.matched = <<[key |-> "foo", value |-> doctexts[1]]>>
           /\ raw.unmatched = <<>>

\* C5 witness: a block whose '---' line had a blank line before it was read and parsed: it
\* is separate, keeps its text, and is the one unmatched Document
C5_Witness ==
  /\ pc = "done"
  /\ Len(doctexts) = 1
  /\ doctexts[1].separate
  /\ doctexts[1].lines = <<"Foo.">>
  /\ comments = Written(<<"Foo.", "", "---">>, "Block", 1)
  /\ Len(result.unmatched) = 1
  /\ result.undocumentedKeys = <<"foo">>

-----------------------------------------------------------------------------
(* The parser on its own (SpecParse): DoctextParser.parse applied to one   *)
(* block of lines.                                                         *)

MaxParseLines == 4

ParseLines ==
  {"Text.", "", "  Cont.", "@link h", "@link h Cap", "@copy foo", "@nope",
   "@copy", "@copy foo x", "@constructor", "  @link h"}

ParseLineSeqs == UNION {[1..n -> ParseLines] : n \in 0..MaxParseLines}

InitParse ==
  /\ \E L \in ParseLineSeqs :
       pIn = [lineno |-> 1, lines |-> L, separate |-> FALSE, nodes |-> <<1>>]
  /\ pOut = NoParse
  /\ comments = <<>>
  /\ props = <<>>
  /\ TheLiteral([start |-> 1, end |-> 1])
  /\ objectNode = <<>>
  /\ DefaultConfig
  /\ pc = "idle"
  /\ error = "none"
  /\ doctexts = <<>>
  /\ matchedArray = <<>>
  /\ raw = EmptyResult
  /\ parsed = EmptyResult
  /\ copied = EmptyResult
  /\ result = EmptyResult

\* DoctextParser.parse(pIn); rest and calls are the rest lines and the handler invocations
\* of its extractEntities
ParseOne ==
  /\ pc = "idle"
  /\ ~pOut.parsed
  /\ \E p \in {Parse(pIn, 1)} : \E e \in {extractEntities(pIn, 1)} :
       pOut' = [doctext |-> p.doctext, error |-> p.error, rest |-> e.rest,
                calls |-> e.calls, parsed |-> TRUE]
  /\ UNCHANGED <<inputs, objectNode, pc, error, doctexts, matchedArray, raw, parsed, copied,
                 result, pIn>>

NextParse == ParseOne

SpecParse == InitParse /\ [][NextParse]_vars

ParsedOk == pOut.parsed /\ pOut.error = "none"

\* the rest lines before the first blank one, all of them when none is blank
BeforeBlank(rest) ==
  IF \E i \in 1..Len(rest) : Trim(rest[i]) = ""
  THEN SubSeq(rest, 1, Min({i \in 1..Len(rest) : Trim(rest[i]) = ""}) - 1)
  ELSE rest

\* C6: body is built from all rest lines and summary, in the same way, from the rest
\* lines before the first blank rest line; without a blank rest line summary equals body.
C6_SummaryBody ==
  ParsedOk =>
    /\ pOut.doctext.body = Body(pOut.rest)
    /\ pOut.doctext.summary = Body(BeforeBlank(pOut.rest))
    /\ (\A i \in 1..Len(pOut.rest) : Trim(pOut.rest[i]) # "")
         => pOut.doctext.summary = pOut.doctext.body

\* C6 witness: a block with a directive and with text on both sides of a blank rest line
\* was parsed: its summary is the text before the blank line and differs from its body
C6_Witness ==
  /\ ParsedOk
  /\ Len(pOut.calls) > 0
  /\ \E i \in 2..(Len(pOut.rest) - 1) : pOut.rest[i] = "" /\ pOut.rest[i + 1] # ""
  /\ pOut.doctext.summary = "Text."
  /\ pOut.doctext.body # pOut.doctext.summary

\* a line that extractEntities handles as a directive header wherever it stands
IsHeader(line) == ~ContentMatch(line) /\ EntityMatch(line) # <<>>

IsLinkHeader(line) == IsHeader(line) /\ EntityMatch(line)[1].name = "link"

\* the lines after header i up to the next header or the end of the block
Following(lines, i) ==
  LET nxt == {j \in (i + 1)..Len(lines) : IsHeader(lines[j])} IN
  SubSeq(lines, i + 1, IF nxt = {} THEN Len(lines) ELSE Min(nxt) - 1)

\* the href and the trailing text of a link header
LinkHeader(line) == ArgMatch(EntityMatch(line)[1].remainder)[1]

\* C7 as stated: the k-th link header gives the k-th link; its caption is the header's
\* trailing text trimmed, or the text of the one indented line after the header, or,
\* when no indented line follows the header (also when blank lines follow it), the href.
C7_LinkCaption ==
  ParsedOk =>
    LET lines == pIn.lines
        heads == {i \in 1..Len(lines) : IsLinkHeader(lines[i])}
        items == IF pOut.doctext.entities.links = <<>> THEN <<>>
                 ELSE pOut.doctext.entities.links[1].items
    IN  /\ Len(items) = Cardinality(heads)
        /\ \A i \in heads :
             LET k == Cardinality({j \in heads : j <= i})
                 h == LinkHeader(lines[i])
                 f == Following(lines, i)
             IN  /\ items[k].href = h.arg
                 /\ Trim(h.remainder) # "" => items[k].caption = Trim(h.remainder)
                 /\ (Trim(h.remainder) = "" /\ Len(f) = 1 /\ ContentMatch(f[1])
                       /\ Trim(f[1]) # "")
                      => items[k].caption = Trim(f[1])
                 /\ (Trim(h.remainder) = "" /\ \A j \in 1..Len(f) : ~ContentMatch(f[j]))
                      => items[k].caption = h.arg

-----------------------------------------------------------------------------
(* Copy and property directives (SpecResolve): a literal with one entry    *)
(* per key of SlotKeys, each with or without a comment above it, after an  *)
(* optional separate comment at the top.                                   *)

SlotKeys == <<"foo", "foo.bar", "bar">>

NoText == <<>>

\* what the comment above an entry says
SlotTexts ==
  { NoText,
    <<"Foo.">>,
    <<"Bar.", "", "More.", "@link h">>,
    <<"@copy foo">>,
    <<"@copy bar">>,
    <<"@copy foo.bar">>,
    <<"@copy baz">>,
    <<"@copy toString">>,
    <<"Baz.", "@property bar", "  Nested.", "  @property baz", "    Deep.">> }

\* what the separate comment at the top says
TopTexts ==
  { NoText,
    <<"Top.", "@property foo.bar", "  Top nested.", "---">>,
    <<"@property foo", "  Replaced.", "---">>,
    <<"@copy baz", "---">> }

\* the comments and Property nodes of the slots from i on, written from line l on
RECURSIVE Slots(_, _, _)
Slots(texts, i, l) ==
  IF i > Len(SlotKeys) THEN [comments |-> <<>>, props |-> <<>>, last |-> l]
  ELSE
    LET c == IF texts[i] = NoText THEN <<>> ELSE Written(texts[i], "Block", l)
        line == IF c = <<>> THEN l ELSE c[1].end + 1
    IN  Const(Slots(texts, i + 1, line + 1),
              LAMBDA r : [comments |-> c \o r.comments,
                          props |-> <<[key |-> SlotKeys[i], line |-> line]>> \o r.props,
                          last |-> r.last])

InitResolve ==
  /\ \E top \in TopTexts : \E texts \in [1..Len(SlotKeys) -> SlotTexts] :
       LET t == IF top = NoText THEN <<>> ELSE Written(top, "Block", 1)
           r == Slots(texts, 1, IF t = <<>> THEN 1 ELSE t[1].end + 2)
       IN  /\ comments = t \o r.comments
           /\ props = r.props
           /\ TheLiteral([start |-> 1, end |-> r.last])
  /\ DefaultConfig
  /\ Start
  /\ ParserIdle

SpecResolve == InitResolve /\ [][Next]_vars

\* resolveCopyDoctexts has returned
CopyResolved == pc \in {"props", "done"} \/ (pc = "failed" /\ copied # EmptyResult)

\* the value of entities, whatever objects hold it
EntValue(e) ==
  [copy |-> e.copy,
   links |-> IF e.links = <<>> THEN <<>> ELSE <<e.links[1].items>>,
   properties |-> IF e.properties = <<>> THEN <<>> ELSE <<e.properties[1].items>>]

\* the objects entities is made of
Objects(e) ==
  (IF e.ref = -1 THEN {} ELSE {e.ref})
    \cup (IF e.links = <<>> THEN {} ELSE {e.links[1].ref})
    \cup (IF e.properties = <<>> THEN {} ELSE {e.properties[1].ref})

\* the indices of the matched Documents whose copy reference names a key of matched
Copying ==
  {i \in 1..Len(parsed.matched) :
     /\ parsed.matched[i].value.entities.copy # <<>>
     /\ DictHas(parsed.matched, parsed.matched[i].value.entities.copy[1])}

\* the index of the Document that Document i copies
SourceOf(i) == DictIndex(parsed.matched, parsed.matched[i].value.entities.copy[1])

SameContent(d, s) ==
  /\ d.summary = s.summary
  /\ d.body = s.body
  /\ EntValue(d.entities) = EntValue(s.entities)

\* C8 as stated: after copy resolution every Document D whose copy reference names a key
\* S of matched has S's summary, body and entities, in objects of its own, and its own
\* lineno and comment tokens, wherever S stands.
C8_CopyAsStated ==
  CopyResolved =>
    \A i \in Copying :
      LET D == copied.matched[i].value
          S == copied.matched[SourceOf(i)].value
      IN  /\ SameContent(D, S)
          /\ SourceOf(i) # i => Objects(D.entities) \cap Objects(S.entities) = {}
          /\ D.lineno = parsed.matched[i].value.lineno
          /\ D.nodes = parsed.matched[i].value.nodes

\* C8 amended: D has the summary, body and entities that S had when D was processed, in
\* objects of its own: those S ends with when S has no copy reference of its own or does
\* not come after D in matched, and those S was parsed with when S comes after D; D keeps
\* its lineno and comment tokens.
C8_CopyOnePass ==
  CopyResolved =>
    \A i \in Copying :
      LET D == copied.matched[i].value
          S == copied.matched[SourceOf(i)].value
          S0 == parsed.matched[SourceOf(i)].value
      IN  /\ (SourceOf(i) <= i \/ S0.entities.copy = <<>>) => SameContent(D, S)
          /\ SourceOf(i) > i => SameContent(D, S0)
          /\ SourceOf(i) # i =>
               /\ Objects(D.entities) \cap Objects(S.entities) = {}
               /\ Objects(D.entities) \cap Objects(S0.entities) = {}
          /\ D.lineno = parsed.matched[i].value.lineno
          /\ D.nodes = parsed.matched[i].value.nodes

\* C8 witness: a Document copies one that comes after it in the source and has a link: it
\* has taken over its summary and body, and its link in a links array of its own
C8_Witness ==
  /\ CopyResolved
  /\ \E i \in Copying :
       LET D == copied.matched[i].value
           S == copied.matched[SourceOf(i)].value
       IN  /\ SourceOf(i) > i
           /\ S.entities.links # <<>>
           /\ D.entities.links # <<>>
           /\ D.entities.links[1].items = S.entities.links[1].items
           /\ D.entities.links[1].ref # S.entities.links[1].ref
           /\ D.summary = "Bar."
           /\ parsed.matched[i].value.summary = ""

\* parseAndResolve has got to resolveCopyDoctexts, and resolveCopyDoctexts has run
CopyAttempted == pc \in {"props", "done"} \/ (pc = "failed" /\ parsed # EmptyResult)

\* C9 as stated: the read fails with ReferencedKeyNotFound and without a result exactly
\* when the copy reference of some matched Document names no key of matched; property
\* directives and the copy references of unmatched Documents play no part.
C9_ReferencedKeyNotFound ==
  CopyAttempted =>
    ((pc = "failed" /\ error = "ReferencedKeyNotFound" /\ result = EmptyResult)
       <=> \E i \in 1..Len(parsed.matched) :
             /\ parsed.matched[i].value.entities.copy # <<>>
             /\ ~DictHas(parsed.matched, parsed.matched[i].value.entities.copy[1]))

\* the Document the parser makes of stored content lines, whatever objects hold it
ParsedContent(propdoctext) ==
  LET d == Parse(propdoctext, 0).doctext IN
  [lineno |-> d.lineno, summary |-> d.summary, body |-> d.body,
   entities |-> EntValue(d.entities), nodes |-> d.nodes]

ContentOf(d) ==
  [lineno |-> d.lineno, summary |-> d.summary, body |-> d.body,
   entities |-> EntValue(d.entities), nodes |-> d.nodes]

\* C10 as stated: after the expansion, for every property directive N recorded on a
\* matched Document with key K the result's matched holds under 'K.N' the parse of the
\* directive's content lines, for one recorded on an unmatched Document under N, and
\* every matched Document that records a property directive keeps its summary and body.
C10_PropertyExpansion ==
  pc = "done" =>
    /\ \A i \in 1..Len(copied.matched) :
         copied.matched[i].value.entities.properties # <<>> =>
           \A w \in 1..Len(copied.matched[i].value.entities.properties[1].items) :
             LET item == copied.matched[i].value.entities.properties[1].items[w]
                 fullkey == copied.matched[i].key \o "." \o item.key
             IN  /\ DictHas(result.matched, fullkey)
                 /\ ContentOf(DictGet(result.matched, fullkey)) = ParsedContent(item.value)
    /\ \A i \in 1..Len(copied.unmatched) :
         copied.unmatched[i].entities.properties # <<>> =>
           \A w \in 1..Len(copied.unmatched[i].entities.properties[1].items) :
             LET item == copied.unmatched[i].entities.properties[1].items[w] IN
             /\ DictHas(result.matched, item.key)
             /\ ContentOf(DictGet(result.matched, item.key)) = ParsedContent(item.value)
    /\ \A i \in 1..Len(copied.matched) :
         copied.matched[i].value.entities.properties # <<>> =>
           /\ DictHas(result.matched, copied.matched[i].key)
           /\ DictGet(result.matched, copied.matched[i].key).summary
                = copied.matched[i].value.summary
           /\ DictGet(result.matched, copied.matched[i].key).body
                = copied.matched[i].value.body

-----------------------------------------------------------------------------
(* Copy chains and the expansion pass (SpecResolve).                       *)

\* resolveCopyDoctexts has returned without an error
CopyDone == pc \in {"props", "done"}

\* the chains A copies B, B copies C of three distinct matched keys, as indices in matched
Chains ==
  {ch \in Copying \X Copying \X (1..Len(parsed.matched)) :
     /\ SourceOf(ch[1]) = ch[2]
     /\ SourceOf(ch[2]) = ch[3]
     /\ ch[1] # ch[2] /\ ch[2] # ch[3] /\ ch[1] # ch[3]}

\* C17: for A copies B and B copies C, three distinct matched keys: when B comes before A
\* in matched, A ends with the summary, body and entities B ends with, which are C's
\* (those C ends with, or those C was parsed with when C has a copy reference and comes
\* after B); when A comes before B, A ends with the summary, body and entities B was
\* parsed with, B's copy reference to C among them, and with nothing of C through B.
C17_CopyChain ==
  CopyDone =>
    \A ch \in Chains :
      LET A == copied.matched[ch[1]].value
          B == copied.matched[ch[2]].value
          B0 == parsed.matched[ch[2]].value
          C == copied.matched[ch[3]].value
          C0 == parsed.matched[ch[3]].value
      IN  /\ ch[2] < ch[1] =>
                /\ SameContent(A, B)
                /\ (ch[3] < ch[2] \/ C0.entities.copy = <<>>) => SameContent(A, C)
                /\ ch[3] > ch[2] => SameContent(A, C0)
          /\ ch[1] < ch[2] =>
                /\ SameContent(A, B0)
                /\ A.entities.copy = <<parsed.matched[ch[3]].key>>

\* C17 witness: foo copies foo.bar, which stands after it and copies bar: foo has ended
\* with the empty summary foo.bar was parsed with and with its reference to bar, while
\* foo.bar has ended with bar's summary
C17_Witness ==
  /\ CopyDone
  /\ \E ch \in Chains :
       /\ ch[1] < ch[2]
       /\ copied.matched[ch[1]].value.summary = ""
       /\ copied.matched[ch[1]].value.entities.copy = <<"bar">>
       /\ copied.matched[ch[2]].value.summary = "Bar."
       /\ copied.matched[ch[3]].value.summary = "Bar."

\* the property directives recorded in entities, each under the full key made with prefix
DirectivesIn(prefix, entities) ==
  IF entities.properties = <<>> THEN {}
  ELSE {[fullkey |-> prefix \o entities.properties[1].items[w].key,
         propdoctext |-> entities.properties[1].items[w].value] :
          w \in 1..Len(entities.properties[1].items)}

\* the property directives of the Documents that are in matched and unmatched when the
\* expansion starts
Directives ==
  UNION ({DirectivesIn(copied.matched[i].key \o ".", copied.matched[i].value.entities) :
            i \in 1..Len(copied.matched)}
         \cup {DirectivesIn("", copied.unmatched[i].entities) :
                 i \in 1..Len(copied.unmatched)})

\* the property directives inside the content of directive d
InnerDirectives(d) ==
  DirectivesIn(d.fullkey \o ".", Parse(d.propdoctext, 0).doctext.entities)

\* C18: after the expansion, for a property directive N of a Document that was in matched
\* or unmatched when the pass started and whose content holds a property directive M,
\* matched has the full key of N, with entities that record M when no other directive has
\* that full key, and matched has the full key of M only when that key was in matched
\* before the pass or is the full key of a directive of the snapshot.
C18_SinglePass ==
  pc = "done" =>
    \A d \in Directives : InnerDirectives(d) # {} =>
      /\ DictHas(result.matched, d.fullkey)
      /\ (\A e \in Directives : e.fullkey = d.fullkey => e = d) =>
           EntValue(DictGet(result.matched, d.fullkey).entities).properties
             = EntValue(Parse(d.propdoctext, 0).doctext.entities).properties
      /\ \A m \in InnerDirectives(d) :
           (/\ ~DictHas(copied.matched, m.fullkey)
            /\ \A e \in Directives : e.fullkey # m.fullkey)
             => ~DictHas(result.matched, m.fullkey)

\* C18 witness: foo has the directive bar whose content holds the directive baz: after the
\* expansion foo.bar is in matched and records baz, and foo.bar.baz is not in matched
C18_Witness ==
  /\ pc = "done"
  /\ DictHas(result.matched, "foo.bar")
  /\ DictGet(result.matched, "foo.bar").summary = "Nested."
  /\ DictGet(result.matched, "foo.bar").entities.properties # <<>>
  /\ DictHas(DictGet(result.matched, "foo.bar").entities.properties[1].items, "baz")
  /\ ~DictHas(result.matched, "foo.bar.baz")

\* C19 as stated: every key that is in matched when the expansion starts maps to the same
\* Document after it; no property directive replaces or removes the Document of an entry.
C19_OnlyInserts ==
  pc = "done" =>
    \A i \in 1..Len(copied.matched) :
      /\ DictHas(result.matched, copied.matched[i].key)
      /\ DictGet(result.matched, copied.matched[i].key) = copied.matched[i].value

\* the keys listed in undocumentedKeys of the returned result
Undocumented == {result.undocumentedKeys[u] : u \in 1..Len(result.undocumentedKeys)}

\* C20 as stated: in the returned result every enumerated entry key is either a key of
\* matched or listed in undocumentedKeys and not both, and no key listed in
\* undocumentedKeys is a key of matched.
C20_KeyPartition ==
  pc = "done" =>
    /\ \A d \in 1..Len(Documentables) :
         DictHas(result.matched, Documentables[d].key)
           # (Documentables[d].key \in Undocumented)
    /\ \A k \in Undocumented : ~DictHas(result.matched, k)

-----------------------------------------------------------------------------
(* Directive headers and entity content (SpecParse).                       *)

\* the number of whitespace-separated tokens of s
RECURSIVE Words(_)
Words(s) ==
  LET t == TrimStart(s) IN
  IF t = "" THEN 0 ELSE 1 + Words(SubSeq(t, LeadingNonSpace(t) + 1, Len(t)))

\* the indices of the directive headers of the block
Heads == {i \in 1..Len(pIn.lines) : IsHeader(pIn.lines[i])}

\* what the validation rule makes of a header line: the error it asks for, or "none"
Verdict(line) ==
  LET m == EntityMatch(line)[1] IN
  IF m.name \notin EntityNames THEN "UnknownEntity"
  ELSE IF Words(m.remainder) < defaultEntities[m.name].args THEN "InvalidEntity"
  ELSE IF Words(m.remainder) > defaultEntities[m.name].args
          /\ ~defaultEntities[m.name].content THEN "InvalidEntity"
  ELSE "none"

\* C11 as stated: the parse fails with what the first invalid header asks for, which is
\* UnknownEntity for a name that is not in the entity table and InvalidEntity for too few
\* arguments or for text after the arguments of an entity without content; with no
\* invalid header it succeeds and every handler gets exactly argCount arguments.
C11_HeaderValidation ==
  pOut.parsed =>
    LET bad == {i \in Heads : Verdict(pIn.lines[i]) # "none"} IN
    IF bad = {}
    THEN /\ pOut.error = "none"
         /\ \A k \in 1..Len(pOut.calls) :
              Len(pOut.calls[k].args) = defaultEntities[pOut.calls[k].name].args
    ELSE pOut.error = Verdict(pIn.lines[Min(bad)])

\* a header that leaves its entity open: a known entity with content, its arguments
\* present and no text after them
OpensEntity(line) ==
  /\ IsHeader(line)
  /\ EntityMatch(line)[1].name \in EntityNames
  /\ defaultEntities[EntityMatch(line)[1].name].content
  /\ Words(EntityMatch(line)[1].remainder) = defaultEntities[EntityMatch(line)[1].name].args

\* a line that is neither a header, nor indented by two spaces, nor blank
IsPlain(line) == ~ContentMatch(line) /\ line # "" /\ EntityMatch(line) = <<>>

\* the index of the first header after line i, one past the block when there is none
NextHead(i) == Min({j \in (i + 1)..Len(pIn.lines) : IsHeader(pIn.lines[j])}
                     \cup {Len(pIn.lines) + 1})

\* the handler invocation that belongs to header i of a block that parsed
CallOf(i) == pOut.calls[Cardinality({j \in Heads : j <= i})]

\* the lines from a to b as an entity collects them
Collected(a, b) == [x \in 1..(b - a + 1) |-> ContentLine(pIn.lines[a + x - 1])]

InRest(line) == \E r \in 1..Len(pOut.rest) : pOut.rest[r] = line

\* C13 as stated: a plain line after a header that left its entity open closes the
\* entity: the handler gets the content lines collected before the plain line, the plain
\* line is a rest line, and every indented line after it, up to the next header, is a
\* rest line and no content of that entity.
C13_PlainLineCloses ==
  ParsedOk =>
    \A i \in Heads : OpensEntity(pIn.lines[i]) =>
      \A j \in (i + 1)..(NextHead(i) - 1) :
        (IsPlain(pIn.lines[j]) /\ \A x \in (i + 1)..(j - 1) : ~IsPlain(pIn.lines[x])) =>
          /\ CallOf(i).lines = Collected(i + 1, j - 1)
          /\ InRest(pIn.lines[j])
          /\ \A x \in (j + 1)..(NextHead(i) - 1) :
               ContentMatch(pIn.lines[x]) => InRest(pIn.lines[x])

\* a valid header of an entity without content, which is finalized at the header
ClosedAtHeader(line) ==
  /\ IsHeader(line)
  /\ Verdict(line) = "none"
  /\ ~defaultEntities[EntityMatch(line)[1].name].content

\* the headers of entities without content that are followed by an indented line
IndentedAfterClosed ==
  {i \in Heads : /\ ClosedAtHeader(pIn.lines[i])
                 /\ i < Len(pIn.lines)
                 /\ ContentMatch(pIn.lines[i + 1])}

\* C14 as stated: a block whose headers are all valid but in which an indented line
\* follows the header of an entity without content fails with InvalidEntity.
C14_IndentedContentRefused ==
  (pOut.parsed /\ IndentedAfterClosed # {}
     /\ \A i \in Heads : Verdict(pIn.lines[i]) = "none")
    => pOut.error = "InvalidEntity"

\* C14 amended: an indented line after the header of an entity without content is no
\* error: the parse fails with InvalidEntity only when some header is invalid, and when
\* it succeeds the handler got no content line and the indented line is a rest line.
C14_IndentedLineToRest ==
  (pOut.parsed /\ IndentedAfterClosed # {}) =>
    /\ pOut.error = "InvalidEntity" => \E i \in Heads : Verdict(pIn.lines[i]) # "none"
    /\ pOut.error = "none" =>
         \A i \in IndentedAfterClosed :
           /\ CallOf(i).lines = <<>>
           /\ InRest(pIn.lines[i + 1])

\* C14 witness: a block in which an indented line follows a copy directive was parsed
\* without error, and the indented line is part of the body
C14_Witness ==
  /\ ParsedOk
  /\ IndentedAfterClosed # {}
  /\ pOut.doctext.entities.copy = <<"foo">>
  /\ pOut.doctext.body = "Cont."

\* s holds the marker character of a directive
HasMarker(s) == \E k \in 1..Len(s) : Ch(s, k) = "@"

\* C15 as stated: no line of the directive header form (leading whitespace, '@', a word,
\* trailing text) is a rest line, and neither summary nor body holds directive text.
C15_NoDirectiveInRest ==
  ParsedOk =>
    /\ \A r \in 1..Len(pOut.rest) : EntityMatch(pOut.rest[r]) = <<>>
    /\ ~HasMarker(pOut.doctext.summary)
    /\ ~HasMarker(pOut.doctext.body)

\* the lines of the block at the indices S, in order
LinesAt(S) ==
  [k \in 1..Cardinality(S) |->
     pIn.lines[CHOOSE x \in S : Cardinality({y \in S : y <= x}) = k]]

\* line x is blank or indented by at least two spaces
BlankOrIndented(x) == pIn.lines[x] = "" \/ ContentMatch(pIn.lines[x])

\* an entity is open at line x: the last header before x left its entity open
OpenAt(x) ==
  \E i \in Heads : /\ i < x
                   /\ \A j \in Heads : j < x => j <= i
                   /\ OpensEntity(pIn.lines[i])

\* a blank or indented line without its first two characters and its trailing whitespace
TwoSpacesRemoved(line) ==
  IF line = "" THEN "" ELSE TrimEnd(SubSeq(line, 3, Len(line)))

\* the blank and indented lines between header i and the next header
ContentOfHead(i) == {x \in (i + 1)..(NextHead(i) - 1) : BlankOrIndented(x)}

\* C16: in a block that parses, the handler of a header that left its entity open gets
\* every blank or indented line up to the next header, two leading spaces removed and
\* blank lines included, and none of these lines is a rest line; the rest lines are the
\* other lines that are no headers, among them every indented line that comes while no
\* entity is open; summary and body are made of the rest lines alone.
C16_ContentLines ==
  ParsedOk =>
    /\ \A i \in Heads : OpensEntity(pIn.lines[i]) =>
         CallOf(i).lines =
           [k \in 1..Cardinality(ContentOfHead(i)) |->
              TwoSpacesRemoved(LinesAt(ContentOfHead(i))[k])]
    /\ pOut.rest =
         LinesAt({x \in 1..Len(pIn.lines) :
                    /\ ~IsHeader(pIn.lines[x])
                    /\ ~(OpenAt(x) /\ BlankOrIndented(x))})
    /\ pOut.doctext.body = Body(pOut.rest)
    /\ pOut.doctext.summary = Summary(pOut.rest)

\* C16 witness: an indented line before any header became a rest line, and the link that
\* was left open got the blank line and the indented line after it as content
C16_Witness ==
  /\ ParsedOk
  /\ pIn.lines = <<"  Cont.", "@link h", "", "  Cont.">>
  /\ pOut.rest = <<"  Cont.">>
  /\ pOut.doctext.body = "Cont."
  /\ Len(pOut.calls) = 1
  /\ pOut.calls[1].lines = <<"", "Cont.">>

-----------------------------------------------------------------------------
(* Locating the literal (SpecFind): a source of one or two statements,     *)
(* each a call, with calls nested in callees and arguments.                *)

MaxCallLine == 2

Literal(l) == [type |-> "Literal", line |-> l]

CallExpression(l, callee, arguments) ==
  [type |-> "CallExpression", line |-> l, callee |-> callee, arguments |-> arguments]

\* callees without a call inside: f, g, o.f, o['f'], and a function expression
PlainCallees ==
  { [type |-> "Identifier", name |-> "f", property |-> "none", calls |-> <<>>],
    [type |-> "Identifier", name |-> "g", property |-> "none", calls |-> <<>>],
    [type |-> "MemberExpression", name |-> "f", property |-> "Identifier", calls |-> <<>>],
    [type |-> "MemberExpression", name |-> "f", property |-> "Literal", calls |-> <<>>],
    [type |-> "FunctionExpression", name |-> "f", property |-> "none", calls |-> <<>>] }

\* argument lists without a call: (), ({...}), (1), ({...}, 1)
PlainArguments(l) ==
  { <<>>, <<ObjectExpression(1, [start |-> l, end |-> l])>>, <<Literal(l)>>,
    <<ObjectExpression(1, [start |-> l, end |-> l]), Literal(l)>> }

PlainCalls ==
  {CallExpression(l, c, a) : l \in 1..MaxCallLine, c \in PlainCallees,
                             a \in UNION {PlainArguments(k) : k \in 1..MaxCallLine}}

\* the calls that stand inside another call: f({...}) and g({...})
InnerCalls(l) ==
  {CallExpression(l, c, <<ObjectExpression(2, [start |-> l, end |-> l])>>) :
     c \in {d \in PlainCallees : d.type = "Identifier"}}

\* a call with a call as its one argument, on the same or on a later line
CallsOfCalls ==
  UNION {{CallExpression(l, c, <<i>>) : c \in PlainCallees, i \in InnerCalls(k)} :
           l \in 1..MaxCallLine, k \in 1..MaxCallLine}

\* a method call on the result of a call: f({...}).f(...)
ChainedCalls ==
  UNION {{CallExpression(l, [c EXCEPT !.calls = <<i>>], a) :
            c \in {d \in PlainCallees : d.type = "MemberExpression"},
            i \in InnerCalls(l), a \in PlainArguments(l)} : l \in 1..MaxCallLine}

\* nodes stand in source order: nothing starts above what it follows or lies in
RECURSIVE InSourceOrder(_, _, _)
InSourceOrder(nodes, i, l) ==
  i > Len(nodes)
    \/ (/\ nodes[i].line >= l
        /\ InSourceOrder(Children(nodes[i]), 1, nodes[i].line)
        /\ InSourceOrder(nodes, i + 1, nodes[i].line))

Bodies ==
  {b \in {<<c>> : c \in PlainCalls \cup CallsOfCalls \cup ChainedCalls}
           \cup {<<c, d>> : c \in PlainCalls,
                            d \in PlainCalls \cup CallsOfCalls \cup ChainedCalls} :
     InSourceOrder(b, 1, 1)}

InitFind ==
  /\ \E b \in Bodies : program = [type |-> "Program", body |-> b]
  /\ callsite \in [lineno : 1..MaxCallLine, functionName : {<<>>, <<"f">>, <<"g">>}]
  /\ comments = <<>>
  /\ props = <<>>
  /\ DefaultConfig
  /\ Start
  /\ ParserIdle

SpecFind == InitFind /\ [][Next]_vars

\* the nodes of the source from node i of nodes on, each before the nodes inside it
RECURSIVE Flatten(_, _)
Flatten(nodes, i) ==
  IF i > Len(nodes) THEN <<>>
  ELSE <<nodes[i]>> \o Flatten(Children(nodes[i]), 1) \o Flatten(nodes, i + 1)

\* a call that starts on the target line and, when a function name is given, is a call
\* of an identifier or of a property of that name
Designated(node) ==
  /\ node.type = "CallExpression"
  /\ node.line = callsite.lineno
  /\ \/ callsite.functionName = <<>>
     \/ /\ node.callee.type = "Identifier" \/ (node.callee.type = "MemberExpression"
                                                /\ node.callee.property = "Identifier")
        /\ <<node.callee.name>> = callsite.functionName

DesignatedCalls == SelectSeq(Flatten(program.body, 1), Designated)

-----------------------------------------------------------------------------
(* Whitespace of summary and body (SpecParse).                             *)

\* s has no two whitespace characters in a row and none at its ends
Collapsed(s) ==
  /\ \A k \in 1..(Len(s) - 1) : ~(IsSpace(Ch(s, k)) /\ IsSpace(Ch(s, k + 1)))
  /\ Len(s) > 0 => ~IsSpace(Ch(s, 1)) /\ ~IsSpace(Ch(s, Len(s)))

\* C21 as stated: summary and body of a parsed Document hold no run of two or more
\* whitespace characters and no whitespace at their ends, however many blank or indented
\* rest lines the block has.
C21_Collapsed ==
  ParsedOk =>
    /\ Collapsed(pOut.doctext.summary)
    /\ Collapsed(pOut.doctext.body)


-----------------------------------------------------------------------------
(* Comment merging (Spec).                                                 *)

\* the members of a set of numbers in increasing order
SortedSeq(S) ==
  [k \in 1..Cardinality(S) |-> CHOOSE x \in S : Cardinality({y \in S : y <= x}) = k]

\* the comment tokens inside the line span of the literal that was read
InSpan ==
  IF objectNode = <<>> THEN {}
  ELSE {i \in 1..Len(comments) : /\ comments[i].start >= objectNode[1].loc.start
                                 /\ comments[i].end <= objectNode[1].loc.end}

\* the token of the span before token j, 0 when j is the first
PrevToken(j) ==
  IF \E i \in InSpan : i < j THEN CHOOSE i \in InSpan : i < j /\ \A h \in InSpan : h < j => h <= i
  ELSE 0

\* the tokens that start a run: the first, and each that starts more than one line after
\* the end of the token before it
RunStarts ==
  {j \in InSpan : \/ PrevToken(j) = 0
                  \/ comments[j].start > comments[PrevToken(j)].end + 1}

\* the run that token s starts
RunOf(s) ==
  SortedSeq({j \in InSpan : j >= s /\ \A t \in RunStarts : t <= s \/ t > j})

\* the text of the run that token s starts
RunText(s) == Join([k \in 1..Len(RunOf(s)) |-> comments[RunOf(s)[k]].value], "\n")

\* C22: after the read, the tokens of every block are one whole run, a run being the
\* tokens of the span from one that starts more than one line after the end of the token
\* before it (or from the first) up to the next such token; the block's lineno is the
\* start line of the first token of its run; the blocks come in source order, no token is
\* in two of them, and every run whose text carries the marker has made one block.
C22_Runs ==
  (pc # "read" /\ objectNode # <<>>) =>
    /\ \A d \in 1..Len(doctexts) :
         /\ Len(doctexts[d].nodes) > 0
         /\ doctexts[d].nodes[1] \in RunStarts
         /\ doctexts[d].nodes = RunOf(doctexts[d].nodes[1])
         /\ doctexts[d].lineno = comments[doctexts[d].nodes[1]].start
    /\ \A d \in 1..Len(doctexts) : \A e \in 1..Len(doctexts) :
         d < e => doctexts[d].nodes[1] < doctexts[e].nodes[1]
    /\ \A s \in RunStarts :
         MarkerMatch(RunText(s)) # <<>> =>
           \E d \in 1..Len(doctexts) : doctexts[d].nodes[1] = s

\* C22 witness: comments on the lines 1 and 2 and, after a line without one, on line 4:
\* the first two made one block with lineno 1, the third a block of its own with lineno 4
C22_Witness ==
  /\ pc # "read"
  /\ Len(comments) = 3
  /\ Len(doctexts) = 2
  /\ doctexts[1].nodes = <<1, 2>>
  /\ doctexts[1].lineno = 1
  /\ doctexts[2].nodes = <<3>>
  /\ doctexts[2].lineno = 4


-----------------------------------------------------------------------------
(* The key filter and attribution (SpecFilter): line comments and entries  *)
(* on the lines of a literal, read with a whitelist and a blacklist.       *)

\* config.whitelist and config.blacklist as given in the options
FilterChoices ==
  {[whitelist |-> {}, blacklist |-> {}],
   [whitelist |-> {}, blacklist |-> {"foo"}],
   [whitelist |-> {"bar"}, blacklist |-> {}],
   [whitelist |-> {"foo", "bar"}, blacklist |-> {"foo"}]}

InitFilter ==
  /\ \E f \in [1..MaxLine -> {NoComment, LineDoc}] : comments = CommentsOf(f, 1)
  /\ props \in PropSeqs
  /\ TheLiteral([start |-> 1, end |-> MaxLine])
  /\ \E c \in FilterChoices : whitelist = c.whitelist /\ blacklist = c.blacklist
  /\ Start
  /\ ParserIdle

SpecFilter == InitFilter /\ [][Next]_vars

\* the properties of the literal that the filter removes: blacklisted, or not whitelisted
\* when there is a whitelist
FilteredOut ==
  {p \in 1..Len(props) :
     \/ props[p].key \in blacklist
     \/ whitelist # {} /\ props[p].key \notin whitelist}

\* C23 as stated: after the read, no block that starts before a filtered-out property is
\* given to an entry that comes after that property.
C23_FilteredDelimit ==
  pc # "read" =>
    \A m \in 1..Len(matchedArray) : matchedArray[m].doctext # <<>> =>
      \A p \in FilteredOut :
        ~(/\ matchedArray[m].doctext[1].lineno < props[p].line
          /\ props[p].line < matchedArray[m].documentable.line)


-----------------------------------------------------------------------------
(* Handler invocations (SpecParse).                                        *)

\* the link headers of the block, in order
LinkHeads == SortedSeq({i \in Heads : EntityMatch(pIn.lines[i])[1].name = "link"})

\* the links list of the parsed Document
LinkItems ==
  IF pOut.doctext.entities.links = <<>> THEN <<>>
  ELSE pOut.doctext.entities.links[1].items

\* C24: in a parse without error the handler invocations are as many as the headers of
\* the block, and the k-th invocation is that of the k-th header, with its entity and its
\* argument; the links list has one link per link header, in the order of the headers.
\* In a parse that fails at a header, the headers before it have had their invocation.
C24_OneInvocationPerHeader ==
  /\ ParsedOk =>
       /\ Len(pOut.calls) = Cardinality(Heads)
       /\ \A i \in Heads :
            /\ CallOf(i).name = EntityMatch(pIn.lines[i])[1].name
            /\ CallOf(i).args = <<ArgMatch(EntityMatch(pIn.lines[i])[1].remainder)[1].arg>>
       /\ Len(LinkItems) = Len(LinkHeads)
       /\ \A k \in 1..Len(LinkHeads) :
            /\ LinkItems[k].href = LinkHeader(pIn.lines[LinkHeads[k]]).arg
            /\ LinkItems[k].caption = "Cap"
                 <=> Trim(LinkHeader(pIn.lines[LinkHeads[k]]).remainder) = "Cap"
  /\ (pOut.parsed /\ pOut.error # "none") =>
       LET bad == {i \in Heads : Verdict(pIn.lines[i]) # "none"} IN
       /\ bad # {}
       /\ Len(pOut.calls) = Cardinality({i \in Heads : i < Min(bad)})

\* C24 witness: a block of four headers, the last one left open until the end, was
\* parsed: four invocations in the order of the headers, three links in source order
C24_Witness ==
  /\ ParsedOk
  /\ pIn.lines = <<"@link h", "@copy foo", "@link h Cap", "@link h">>
  /\ Len(pOut.calls) = 4
  /\ pOut.calls[2].name = "copy"
  /\ pOut.calls[3].lines = <<"Cap">>
  /\ Len(LinkItems) = 3
  /\ LinkItems[2].caption = "Cap"
  /\ LinkItems[3].caption = "h"

=============================================================================
